---- MODULE Spec2Model ----
(***************************************************************************)
(* A model of the MinFS coordination core (src/fs/fs.go): the file-handle  *)
(* registry (Acquire/Release), the keyed mutex (KeyedMutex.Lock) and Open  *)
(* requests running under it, the cache path allocator (NewCachePath), the *)
(* write-back pipeline (sync/startSync) and the lifecycle (New/Serve/      *)
(* shutdown).  Each subsystem has its own next-state relation over the     *)
(* common state, so that each can be explored with bounds of its own.      *)
(***************************************************************************)
EXTENDS Integers, Sequences, FiniteSets, TLC

(* ------------------------------ bounds --------------------------------- *)
\* goroutines calling Acquire/Release concurrently
NumProcs == 2
\* Acquire calls started in one run
MaxAcquires == 3
\* Release calls in one run
MaxReleases == 3
\* Acquire calls started in one run that exercises Release
MaxRelAcquires == 2
\* goroutines calling KeyedMutex.Lock concurrently
NumLockers == 3
\* KeyedMutex.Lock calls started in one run
MaxLockCalls == 4

\* goroutines calling NewCachePath concurrently
NumCachers == 2
\* suffixes nextSuffix hands out in one run
MaxSuffix == 3

\* Open requests running concurrently
NumOpeners == 2
\* Open requests started in one run
MaxOpens == 3

Procs == 1..NumProcs
Cachers == 1..NumCachers
\* mfs.config.cache
CacheDir == "cache"
Lockers == 1..NumLockers
\* the goroutines of Lockers that run Open requests
Openers == 1..NumOpeners
\* resource keys passed to Acquire and to KeyedMutex.Lock
ResourceKeys == {"bucket/obj1", "bucket/obj2"}

VARIABLES
    \* ---- file handle registry (MinFS.fdcounter, MinFS.openfds) ----
    fdcounter,   \* MinFS.fdcounter
    openfds,     \* MinFS.openfds: a function handle id -> resource key
    hPc,         \* position of each goroutine inside Acquire
    hKey,        \* the resourceKey argument of the Acquire in progress
    hFh,         \* fh.handle of the FileHandle under construction
    fhs,         \* the FileHandles returned so far, in order of return
    relCount,    \* number of Release calls that have returned
    lastRel,     \* the last Release: fh.handle, and whether it was in openfds
    \* ---- keyed mutex (KeyedMutex.mutexes) ----
    mutexes,     \* KeyedMutex.mutexes: a function key -> *sync.Mutex
    mtxLocked,   \* the set of sync.Mutex objects that are locked
    nextMtx,     \* number of sync.Mutex objects allocated so far
    kmPc,        \* position of each goroutine around KeyedMutex.Lock
    kmKey,       \* the key argument of the Lock in progress
    kmMtx,       \* the local variable mtx of the Lock in progress
    \* ---- lifecycle (New, Serve, shutdown) ----
    lcPc,        \* position of the main goroutine in New and Serve
    cacheDir,    \* TRUE once os.MkdirAll(cfg.cache) has created the directory
    mountCalled, \* TRUE once fuse.Mount has been called
    mounted,     \* TRUE while the mountpoint is mounted
    connClosed,  \* TRUE once c.Close() has run
    dbState,     \* mfs.db: "unopened", "openfailed", "open" or "closed"
    bucket,      \* the root bucket "minio/": "none", "ok" or "failed"
    deferStack,  \* the deferred calls of Serve, last registered first
    serveErr,    \* the named result err of Serve
    sigPc,       \* position of the signal goroutine (lines 220-227)
    unmounts,    \* fuse.Unmount calls completed by shutdown()
    unmountErrs, \* those of them that returned an error
    \* ---- write-back pipeline (sync, startSync) ----
    consPc,      \* position of the consumer goroutine of startSync
    consReq,     \* the value req the consumer has received
    inflight,    \* the senders blocked in mfs.syncChan <- req
    callPc,      \* position of each request goroutine around sync
    callCount,   \* number of sync calls each request goroutine has made
    callReq,     \* the argument req of each goroutine's latest sync call
    returned,    \* the sync calls that have returned, with their result
    dispatched,  \* the handler invocations, in order
    running,     \* handler invocations that have not returned yet
    \* ---- cache path allocator (NewCachePath) ----
    disk,        \* the paths that exist on disk
    suffixCtr,   \* the source nextSuffix draws from
    ncPc,        \* position of each goroutine inside NewCachePath
    ncPath,      \* the local variable cachePath of the call in progress
    ncLog,       \* the os.Stat checks of the call in progress, in order
    ncResults,   \* the NewCachePath calls that have returned, in order
    \* ---- Open under the keyed mutex ----
    opPc,        \* position of each Open request in its sequence
    opSaw,       \* what the request's cache check saw: TRUE for populated
    cachePop,    \* the resource keys whose cache entry is populated
    populations, \* number of population steps executed for each key
    handouts,    \* the hand-outs of cache contents, in order
    \* ---- background cache monitor (go mfs.MonitorCache()) ----
    monPc        \* "none", or "running" once the goroutine has been started

hvars == <<fdcounter, openfds, hPc, hKey, hFh, fhs, relCount, lastRel>>
kvars == <<mutexes, mtxLocked, nextMtx, kmPc, kmKey, kmMtx>>
lvars == <<lcPc, cacheDir, mountCalled, mounted, connClosed, dbState, bucket,
           deferStack, serveErr, sigPc, unmounts, unmountErrs>>
pvars == <<consPc, consReq, inflight, callPc, callCount, callReq, returned,
           dispatched, running>>
cvars == <<disk, suffixCtr, ncPc, ncPath, ncLog, ncResults>>
ovars == <<opPc, opSaw, cachePop, populations, handouts>>
mvars == <<monPc>>
xvars == <<cvars, ovars, mvars>>
vars == <<hvars, kvars, lvars, pvars, xvars>>

\* map update and delete on a Go map modelled as a function
MapPut(m, k, v) == [x \in DOMAIN m \cup {k} |-> IF x = k THEN v ELSE m[x]]
MapDelete(m, k) == [x \in DOMAIN m \ {k} |-> m[x]]
EmptyMap == [x \in {} |-> 0]

(* ---------------------- file handle registry --------------------------- *)
InitHandles ==
    /\ fdcounter = 0
    /\ openfds = EmptyMap
    /\ hPc = [p \in Procs |-> "idle"]
    /\ hKey = [p \in Procs |-> "bucket/obj1"]
    /\ hFh = [p \in Procs |-> 0]
    /\ fhs = <<>>
    /\ relCount = 0
    /\ lastRel = [handle |-> 0, present |-> FALSE]

\* Acquire, line 369: atomic.AddUint64(&mfs.fdcounter, 1)
AcquireAdd(p, k) ==
    /\ hPc[p] = "idle"
    /\ fdcounter < MaxAcquires
    /\ fdcounter' = fdcounter + 1
    /\ hKey' = [hKey EXCEPT ![p] = k]
    /\ hPc' = [hPc EXCEPT ![p] = "read"]
    /\ UNCHANGED <<openfds, hFh, fhs, relCount, lastRel, kvars, lvars, pvars, xvars>>

\* Acquire, line 370: fh.handle = mfs.fdcounter (a plain read of the counter,
\* separate from the atomic add)
AcquireRead(p) ==
    /\ hPc[p] = "read"
    /\ hFh' = [hFh EXCEPT ![p] = fdcounter]
    /\ hPc' = [hPc EXCEPT ![p] = "store"]
    /\ UNCHANGED <<fdcounter, openfds, hKey, fhs, relCount, lastRel, kvars, lvars,
                   pvars, xvars>>

\* Acquire, lines 372-376: under mfs.m, openfds[fh.handle] = resourceKey;
\* return fh
AcquireStore(p) ==
    /\ hPc[p] = "store"
    /\ openfds' = MapPut(openfds, hFh[p], hKey[p])
    /\ fhs' = Append(fhs, [handle |-> hFh[p], key |-> hKey[p], released |-> FALSE])
    /\ hPc' = [hPc EXCEPT ![p] = "idle"]
    /\ UNCHANGED <<fdcounter, hKey, hFh, relCount, lastRel, kvars, lvars, pvars, xvars>>

\* the handle ids Acquire has returned so far
Issued == {fhs[i].handle : i \in DOMAIN fhs}

\* A bug variant of Release: every entry of the handle's resource key is
\* removed, not the entry of the handle.
ReleaseByKey(p, i) ==
    /\ hPc[p] = "idle"
    /\ i \in DOMAIN fhs
    /\ relCount < MaxReleases
    /\ openfds' = [h \in {x \in DOMAIN openfds : openfds[x] # fhs[i].key}
                      |-> openfds[h]]
    /\ fhs' = [fhs EXCEPT ![i].released = TRUE]
    /\ relCount' = relCount + 1
    /\ lastRel' = [handle |-> fhs[i].handle,
                   present |-> fhs[i].handle \in DOMAIN openfds]
    /\ UNCHANGED <<fdcounter, hPc, hKey, hFh, kvars, lvars, pvars, xvars>>

\* Release, lines 380-387: under mfs.m, delete(mfs.openfds, fh.handle);
\* return nil.  i is the index in fhs of the FileHandle passed in, which may
\* have been released before.
Release(p, i) ==
    /\ hPc[p] = "idle"
    /\ i \in DOMAIN fhs
    /\ relCount < MaxReleases
    /\ openfds' = MapDelete(openfds, fhs[i].handle)
    /\ fhs' = [fhs EXCEPT ![i].released = TRUE]
    /\ relCount' = relCount + 1
    /\ lastRel' = [handle |-> fhs[i].handle,
                   present |-> fhs[i].handle \in DOMAIN openfds]
    /\ UNCHANGED <<fdcounter, hPc, hKey, hFh, kvars, lvars, pvars, xvars>>

\* Release, lines 380-387, called with a FileHandle that Acquire has not
\* returned (such as the zero value, whose handle is 0)
Release_Stray(p, h) ==
    /\ hPc[p] = "idle"
    /\ h \notin Issued
    /\ relCount < MaxReleases
    /\ openfds' = MapDelete(openfds, h)
    /\ relCount' = relCount + 1
    /\ lastRel' = [handle |-> h, present |-> h \in DOMAIN openfds]
    /\ UNCHANGED <<fdcounter, hPc, hKey, hFh, fhs, kvars, lvars, pvars, xvars>>

NextHandles ==
    \/ \E p \in Procs, k \in ResourceKeys : AcquireAdd(p, k)
    \/ \E p \in Procs : AcquireRead(p)
    \/ \E p \in Procs : AcquireStore(p)
    \/ \E p \in Procs, i \in 1..MaxAcquires : Release(p, i)
    \/ \E p \in Procs, h \in 0..MaxAcquires : Release_Stray(p, h)

\* Acquire and Release, with fewer Acquire calls
NextRelease ==
    \/ \E p \in Procs, k \in ResourceKeys :
           fdcounter < MaxRelAcquires /\ AcquireAdd(p, k)
    \/ \E p \in Procs : AcquireRead(p)
    \/ \E p \in Procs : AcquireStore(p)
    \/ \E p \in Procs, i \in 1..MaxRelAcquires : Release(p, i)
    \/ \E p \in Procs, h \in 0..MaxRelAcquires : Release_Stray(p, h)

(* --------------------------- keyed mutex ------------------------------- *)
InitKM ==
    /\ mutexes = EmptyMap
    /\ mtxLocked = {}
    /\ nextMtx = 0
    /\ kmPc = [c \in Lockers |-> "idle"]
    /\ kmKey = [c \in Lockers |-> "bucket/obj1"]
    /\ kmMtx = [c \in Lockers |-> 0]

\* A bug variant of LoadOrStore: a plain Store of the fresh mutex, as a
\* non-atomic "load, then store if absent" ends when two callers race.
LoadOrStoreOverwrites(c, key) ==
    /\ kmPc[c] = "idle"
    /\ nextMtx < MaxLockCalls
    /\ nextMtx' = nextMtx + 1
    /\ mutexes' = MapPut(mutexes, key, nextMtx + 1)
    /\ kmMtx' = [kmMtx EXCEPT ![c] = nextMtx + 1]
    /\ kmKey' = [kmKey EXCEPT ![c] = key]
    /\ kmPc' = [kmPc EXCEPT ![c] = "locking"]
    /\ UNCHANGED <<mtxLocked, hvars, lvars, pvars, xvars>>

\* A bug variant of LoadOrStore: every key shares one map slot (a global lock).
LoadOrStoreOneSlot(c, key) ==
    /\ kmPc[c] = "idle"
    /\ nextMtx < MaxLockCalls
    /\ nextMtx' = nextMtx + 1
    /\ IF "bucket/obj1" \in DOMAIN mutexes
         THEN /\ kmMtx' = [kmMtx EXCEPT ![c] = mutexes["bucket/obj1"]]
              /\ UNCHANGED mutexes
         ELSE /\ mutexes' = MapPut(mutexes, "bucket/obj1", nextMtx + 1)
              /\ kmMtx' = [kmMtx EXCEPT ![c] = nextMtx + 1]
    /\ kmKey' = [kmKey EXCEPT ![c] = key]
    /\ kmPc' = [kmPc EXCEPT ![c] = "locking"]
    /\ UNCHANGED <<mtxLocked, hvars, lvars, pvars, xvars>>

\* Lock, lines 53-54: value, _ := m.mutexes.LoadOrStore(key, &sync.Mutex{});
\* mtx := value.(*sync.Mutex).  A fresh mutex is allocated by every call;
\* sync.Map.LoadOrStore is atomic: it returns the stored mutex when the key
\* is present and stores the fresh one otherwise.
LoadOrStore(c, key) ==
    /\ kmPc[c] = "idle"
    /\ nextMtx < MaxLockCalls
    /\ nextMtx' = nextMtx + 1
    /\ IF key \in DOMAIN mutexes
         THEN /\ kmMtx' = [kmMtx EXCEPT ![c] = mutexes[key]]
              /\ UNCHANGED mutexes
         ELSE /\ mutexes' = MapPut(mutexes, key, nextMtx + 1)
              /\ kmMtx' = [kmMtx EXCEPT ![c] = nextMtx + 1]
    /\ kmKey' = [kmKey EXCEPT ![c] = key]
    /\ kmPc' = [kmPc EXCEPT ![c] = "locking"]
    /\ UNCHANGED <<mtxLocked, hvars, lvars, pvars, xvars>>

\* A bug variant of line 55: the lock is taken without waiting for the
\* holder to release it.
MtxLockNoWait(c) ==
    /\ kmPc[c] = "locking"
    /\ mtxLocked' = mtxLocked \cup {kmMtx[c]}
    /\ kmPc' = [kmPc EXCEPT ![c] = "held"]
    /\ UNCHANGED <<mutexes, nextMtx, kmKey, kmMtx, hvars, lvars, pvars, xvars>>

\* Lock, line 55: mtx.Lock() blocks while the mutex is locked; then Lock
\* returns the release function (line 57)
MtxLock(c) ==
    /\ kmPc[c] = "locking"
    /\ kmMtx[c] \notin mtxLocked
    /\ mtxLocked' = mtxLocked \cup {kmMtx[c]}
    /\ kmPc' = [kmPc EXCEPT ![c] = "held"]
    /\ UNCHANGED <<mutexes, nextMtx, kmKey, kmMtx, hvars, lvars, pvars, xvars>>

\* line 57: the returned function, func() { mtx.Unlock() }
Unlock(c) ==
    /\ kmPc[c] = "held"
    /\ mtxLocked' = mtxLocked \ {kmMtx[c]}
    /\ kmPc' = [kmPc EXCEPT ![c] = "idle"]
    /\ UNCHANGED <<mutexes, nextMtx, kmKey, kmMtx, hvars, lvars, pvars, xvars>>

NextKM ==
    \/ \E c \in Lockers, key \in ResourceKeys : LoadOrStore(c, key)
    \/ \E c \in Lockers : MtxLock(c)
    \/ \E c \in Lockers : Unlock(c)

(* ------------------- cache paths: NewCachePath ------------------------ *)
\* path.Join(dir, name): the path of the entry name in the directory dir
Join(dir, name) == <<dir, name>>

\* the empty string returned with an error
NoPath == <<>>

InitCache ==
    /\ disk = {}
    /\ suffixCtr = 0
    /\ ncPc = [c \in Cachers |-> "idle"]
    /\ ncPath = [c \in Cachers |-> NoPath]
    /\ ncLog = [c \in Cachers |-> <<>>]
    /\ ncResults = <<>>

\* nextSuffix(): a suffix that no earlier call in this session has returned,
\* drawn from a monotonic source
nextSuffix == suffixCtr + 1

\* A bug variant of line 415: the first candidate is built from the last
\* suffix handed out, without drawing a new one.
NewCachePath_BeginStale(c) ==
    /\ ncPc[c] = "idle"
    /\ suffixCtr < MaxSuffix
    /\ ncPath' = [ncPath EXCEPT ![c] = Join(CacheDir, suffixCtr)]
    /\ ncLog' = [ncLog EXCEPT ![c] = <<>>]
    /\ ncPc' = [ncPc EXCEPT ![c] = "stat"]
    /\ UNCHANGED <<disk, suffixCtr, ncResults, hvars, kvars, lvars, pvars, ovars, mvars>>

\* NewCachePath, line 415: cachePath := path.Join(mfs.config.cache,
\* nextSuffix())
NewCachePath_Begin(c) ==
    /\ ncPc[c] = "idle"
    /\ suffixCtr < MaxSuffix
    /\ suffixCtr' = nextSuffix
    /\ ncPath' = [ncPath EXCEPT ![c] = Join(CacheDir, nextSuffix)]
    /\ ncLog' = [ncLog EXCEPT ![c] = <<>>]
    /\ ncPc' = [ncPc EXCEPT ![c] = "stat"]
    /\ UNCHANGED <<disk, ncResults, hvars, kvars, lvars, pvars, ovars, mvars>>

\* the result of os.Stat(cachePath), line 417: an error other than "does
\* not exist" when ioerr, else according to the disk
StatOutcome(c, ioerr) ==
    IF ioerr THEN "error"
    ELSE IF ncPath[c] \in disk THEN "exists" ELSE "notexist"

\* the record of one check: the candidate, what os.Stat reported and whether
\* the candidate was on disk at the time
StatEntry(c, outcome) ==
    [path |-> ncPath[c], outcome |-> outcome, onDisk |-> ncPath[c] \in disk]

\* A bug variant of lines 417-423: the test of err is inverted, a candidate
\* that exists is returned and one that does not exist is skipped.
NewCachePath_StatInverted(c, ioerr) ==
    /\ ncPc[c] = "stat"
    /\ LET outcome == StatOutcome(c, ioerr)
           log == Append(ncLog[c], StatEntry(c, outcome))
       IN  CASE outcome = "notexist" ->
                 /\ suffixCtr < MaxSuffix
                 /\ suffixCtr' = nextSuffix
                 /\ ncPath' = [ncPath EXCEPT ![c] = Join(CacheDir, nextSuffix)]
                 /\ ncLog' = [ncLog EXCEPT ![c] = log]
                 /\ UNCHANGED <<ncPc, ncResults>>
            [] outcome = "exists" ->
                 /\ ncResults' = Append(ncResults,
                        [caller |-> c, path |-> ncPath[c], err |-> "nil",
                         log |-> log])
                 /\ ncPc' = [ncPc EXCEPT ![c] = "idle"]
                 /\ ncLog' = [ncLog EXCEPT ![c] = <<>>]
                 /\ UNCHANGED <<suffixCtr, ncPath>>
            [] outcome = "error" ->
                 /\ ncResults' = Append(ncResults,
                        [caller |-> c, path |-> NoPath, err |-> "ioerr",
                         log |-> log])
                 /\ ncPc' = [ncPc EXCEPT ![c] = "idle"]
                 /\ ncLog' = [ncLog EXCEPT ![c] = <<>>]
                 /\ UNCHANGED <<suffixCtr, ncPath>>
    /\ UNCHANGED <<disk, hvars, kvars, lvars, pvars, ovars, mvars>>

\* NewCachePath, lines 416-424, one iteration of the loop: os.Stat(cachePath);
\* err == nil (the path exists): fall through to line 423 and draw the next
\* candidate; os.IsNotExist(err): return cachePath, nil; any other error:
\* return "", err.
NewCachePath_Stat(c, ioerr) ==
    /\ ncPc[c] = "stat"
    /\ LET outcome == StatOutcome(c, ioerr)
           log == Append(ncLog[c], StatEntry(c, outcome))
       IN  CASE outcome = "exists" ->
                 /\ suffixCtr < MaxSuffix
                 /\ suffixCtr' = nextSuffix
                 /\ ncPath' = [ncPath EXCEPT ![c] = Join(CacheDir, nextSuffix)]
                 /\ ncLog' = [ncLog EXCEPT ![c] = log]
                 /\ UNCHANGED <<ncPc, ncResults>>
            [] outcome = "notexist" ->
                 /\ ncResults' = Append(ncResults,
                        [caller |-> c, path |-> ncPath[c], err |-> "nil",
                         log |-> log])
                 /\ ncPc' = [ncPc EXCEPT ![c] = "idle"]
                 /\ ncLog' = [ncLog EXCEPT ![c] = <<>>]
                 /\ UNCHANGED <<suffixCtr, ncPath>>
            [] outcome = "error" ->
                 /\ ncResults' = Append(ncResults,
                        [caller |-> c, path |-> NoPath, err |-> "ioerr",
                         log |-> log])
                 /\ ncPc' = [ncPc EXCEPT ![c] = "idle"]
                 /\ ncLog' = [ncLog EXCEPT ![c] = <<>>]
                 /\ UNCHANGED <<suffixCtr, ncPath>>
    /\ UNCHANGED <<disk, hvars, kvars, lvars, pvars, ovars, mvars>>

\* a file appears in the cache directory: a caller writes the object to the
\* path it was given, or the file is left from an earlier session
CreateFile(n) ==
    /\ Join(CacheDir, n) \notin disk
    /\ disk' = disk \cup {Join(CacheDir, n)}
    /\ UNCHANGED <<suffixCtr, ncPc, ncPath, ncLog, ncResults, hvars, kvars,
                   lvars, pvars, ovars, mvars>>

\* a file leaves the cache directory: the cache monitor or a request removes
\* it, or it is removed from outside
RemoveFile(n) ==
    /\ Join(CacheDir, n) \in disk
    /\ disk' = disk \ {Join(CacheDir, n)}
    /\ UNCHANGED <<suffixCtr, ncPc, ncPath, ncLog, ncResults, hvars, kvars,
                   lvars, pvars, ovars, mvars>>

NextCache ==
    \/ \E c \in Cachers : NewCachePath_Begin(c)
    \/ \E c \in Cachers, ioerr \in BOOLEAN : NewCachePath_Stat(c, ioerr)
    \/ \E n \in 1..MaxSuffix : CreateFile(n)
    \/ \E n \in 1..MaxSuffix : RemoveFile(n)

(* --------------- Open under the keyed mutex (File.Open) ---------------- *)
InitOpen ==
    /\ opPc = [c \in Lockers |-> "lock"]
    /\ opSaw = [c \in Lockers |-> FALSE]
    /\ cachePop = {}
    /\ populations = [k \in ResourceKeys |-> 0]
    /\ handouts = <<>>

\* Open, holding KeyedMutex.Lock(key): check cache state
Open_Check(c) ==
    /\ opPc[c] = "lock"
    /\ kmPc[c] = "held"
    /\ opSaw' = [opSaw EXCEPT ![c] = kmKey[c] \in cachePop]
    /\ opPc' = [opPc EXCEPT ![c] =
                   IF kmKey[c] \in cachePop THEN "handout" ELSE "populate"]
    /\ UNCHANGED <<cachePop, populations, handouts, cvars, hvars, kvars, lvars,
                   pvars, mvars>>

\* Open, holding the lock: populate cache from remote (the entry was absent)
Open_Populate(c) ==
    /\ opPc[c] = "populate"
    /\ populations' = [populations EXCEPT ![kmKey[c]] = @ + 1]
    /\ cachePop' = cachePop \cup {kmKey[c]}
    /\ opPc' = [opPc EXCEPT ![c] = "handout"]
    /\ UNCHANGED <<opSaw, handouts, cvars, hvars, kvars, lvars, pvars, mvars>>

\* Open, holding the lock: hand out cache contents.  The record keeps what
\* the caller's check saw, whether the entry is populated now, and whether
\* another caller was waiting for the same key at this moment.
Open_HandOut(c) ==
    /\ opPc[c] = "handout"
    /\ handouts' = Append(handouts,
           [caller |-> c, key |-> kmKey[c], saw |-> opSaw[c],
            populated |-> kmKey[c] \in cachePop,
            contended |-> \E d \in Lockers \ {c} :
                              kmPc[d] = "locking" /\ kmKey[d] = kmKey[c]])
    /\ opPc' = [opPc EXCEPT ![c] = "unlock"]
    /\ UNCHANGED <<opSaw, cachePop, populations, cvars, hvars, kvars, lvars,
                   pvars, mvars>>

\* Open returns after the release function has run
Open_Return(c) ==
    /\ opPc[c] = "unlock"
    /\ kmPc[c] = "idle"
    /\ opPc' = [opPc EXCEPT ![c] = "lock"]
    /\ UNCHANGED <<opSaw, cachePop, populations, handouts, cvars, hvars, kvars,
                   lvars, pvars, mvars>>

\* concurrent Open requests: each calls KeyedMutex.Lock(key), runs the
\* sequence above and calls the release function
NextOpen ==
    \/ \E c \in Openers, key \in ResourceKeys :
           opPc[c] = "lock" /\ nextMtx < MaxOpens /\ LoadOrStore(c, key)
    \/ \E c \in Openers : MtxLock(c)
    \/ \E c \in Openers : Open_Check(c)
    \/ \E c \in Openers : Open_Populate(c)
    \/ \E c \in Openers : Open_HandOut(c)
    \/ \E c \in Openers : opPc[c] = "unlock" /\ Unlock(c)
    \/ \E c \in Openers : Open_Return(c)

(* ------------------------ lifecycle: New, Serve ------------------------ *)
\* request goroutines submitting to the pipeline
NumCallers == 2
\* sync calls started in one run of the whole lifecycle
MaxOps == 1
\* sync calls started in one run of the serving phase alone
MaxPipeOps == 3

Callers == 1..NumCallers
\* the dynamic types a value sent through sync can have: the three operation
\* types of the type switch (lines 337-342) and any other type (its default)
OpTypes == {"MoveOperation", "CopyOperation", "PutOperation", "other"}
NoReq == [caller |-> 0, idx |-> 0, type |-> "none", late |-> FALSE]

InitLifecycle ==
    /\ lcPc = "New_config"
    /\ cacheDir = FALSE
    /\ mountCalled = FALSE
    /\ mounted = FALSE
    /\ connClosed = FALSE
    /\ dbState = "unopened"
    /\ bucket = "none"
    /\ deferStack = <<>>
    /\ serveErr = "nil"
    /\ sigPc = "none"
    /\ unmounts = 0
    /\ unmountErrs = 0
    /\ monPc = "none"

InitPipeline ==
    /\ consPc = "none"
    /\ consReq = NoReq
    /\ inflight = {}
    /\ callPc = [c \in Callers |-> "idle"]
    /\ callCount = [c \in Callers |-> 0]
    /\ callReq = [c \in Callers |-> NoReq]
    /\ returned = {}
    /\ dispatched = <<>>
    /\ running = 0

\* the number of sync calls made so far
RECURSIVE SumTo(_, _)
SumTo(f, n) == IF n = 0 THEN 0 ELSE f[n] + SumTo(f, n - 1)
TotalCalls == SumTo(callCount, NumCallers)

\* an unrecovered panic in the consumer goroutine (line 344) ends the process
Alive == consPc # "panicked"

\* one step of New that can fail: on failure New returns (nil, err)
NewStep(from, to, ok) ==
    /\ Alive
    /\ lcPc = from
    /\ lcPc' = IF ok THEN to ELSE "New_failed"

\* New, lines 93-96: InitMinFSConfig()
New_InitConfig(ok) ==
    /\ NewStep("New_config", "New_log", ok)
    /\ UNCHANGED <<cacheDir, mountCalled, mounted, connClosed, dbState, bucket,
                   deferStack, serveErr, sigPc, unmounts, unmountErrs>>
    /\ UNCHANGED <<hvars, kvars, pvars, xvars>>

\* New, lines 99-102: os.OpenFile(globalLogFile, ...); then the defaults and
\* the options are applied (lines 105-119)
New_OpenLog(ok) ==
    /\ NewStep("New_log", "New_mkdir", ok)
    /\ UNCHANGED <<cacheDir, mountCalled, mounted, connClosed, dbState, bucket,
                   deferStack, serveErr, sigPc, unmounts, unmountErrs>>
    /\ UNCHANGED <<hvars, kvars, pvars, xvars>>

\* New, lines 122-124: os.MkdirAll(cfg.cache, 0777)
New_MkdirAll(ok) ==
    /\ NewStep("New_mkdir", "New_validate", ok)
    /\ cacheDir' = ok
    /\ UNCHANGED <<mountCalled, mounted, connClosed, dbState, bucket,
                   deferStack, serveErr, sigPc, unmounts, unmountErrs>>
    /\ UNCHANGED <<hvars, kvars, pvars, xvars>>

\* New, lines 126-141: cfg.validate(); on success the MinFS value is built
\* and returned
New_Validate(ok) ==
    /\ NewStep("New_validate", "New_ok", ok)
    /\ UNCHANGED <<cacheDir, mountCalled, mounted, connClosed, dbState, bucket,
                   deferStack, serveErr, sigPc, unmounts, unmountErrs>>
    /\ UNCHANGED <<hvars, kvars, pvars, xvars>>

\* return of Serve with result e: the deferred calls run next
ServeReturn(e) ==
    /\ serveErr' = e
    /\ lcPc' = "defers"

\* Serve, lines 199-206: Serve is called on the value New returned;
\* defer mfs.shutdown()
Serve_Begin ==
    /\ Alive
    /\ lcPc = "New_ok"
    /\ lcPc' = "mount"
    /\ deferStack' = <<"shutdown">>
    /\ UNCHANGED <<cacheDir, mountCalled, mounted, connClosed, dbState, bucket,
                   serveErr, sigPc, unmounts, unmountErrs>>
    /\ UNCHANGED <<hvars, kvars, pvars, xvars>>

\* Serve, lines 209-227: c, err = mfs.mount(); on error return err; else
\* defer c.Close(), install the signal trap and start the signal goroutine
Serve_Mount(ok) ==
    /\ Alive
    /\ lcPc = "mount"
    /\ mountCalled' = TRUE
    /\ IF ok
         THEN /\ mounted' = TRUE
              /\ deferStack' = <<"c.Close">> \o deferStack
              /\ sigPc' = "waiting"
              /\ lcPc' = "open"
              /\ UNCHANGED serveErr
         ELSE /\ ServeReturn("mount")
              /\ UNCHANGED <<mounted, deferStack, sigPc>>
    /\ UNCHANGED <<cacheDir, connClosed, dbState, bucket, unmounts, unmountErrs>>
    /\ UNCHANGED <<hvars, kvars, pvars, xvars>>

\* Serve, lines 231-235: mfs.db, err = meta.Open(...); on error return err;
\* else defer mfs.db.Close()
Serve_MetaOpen(ok) ==
    /\ Alive
    /\ lcPc = "open"
    /\ IF ok
         THEN /\ dbState' = "open"
              /\ deferStack' = <<"db.Close">> \o deferStack
              /\ lcPc' = "update"
              /\ UNCHANGED serveErr
         ELSE /\ dbState' = "openfailed"
              /\ ServeReturn("open")
              /\ UNCHANGED deferStack
    /\ UNCHANGED <<cacheDir, mountCalled, mounted, connClosed, bucket, sigPc,
                   unmounts, unmountErrs>>
    /\ UNCHANGED <<hvars, kvars, pvars, xvars>>

\* Serve, lines 238-243: mfs.db.Update(CreateBucketIfNotExists("minio/"))
Serve_DbUpdate(ok) ==
    /\ Alive
    /\ lcPc = "update"
    /\ IF ok
         THEN /\ bucket' = "ok"
              /\ lcPc' = "client"
              /\ UNCHANGED serveErr
         ELSE /\ bucket' = "failed"
              /\ ServeReturn("update")
    /\ UNCHANGED <<cacheDir, mountCalled, mounted, connClosed, dbState,
                   deferStack, sigPc, unmounts, unmountErrs>>
    /\ UNCHANGED <<hvars, kvars, pvars, xvars>>

\* Serve, lines 245-288: go mfs.MonitorCache() starts the cache monitor
\* goroutine (line 254), then mfs.api, err = minio.New(host, options); the
\* monitor has been started also when minio.New fails
Serve_NewClient(ok) ==
    /\ Alive
    /\ lcPc = "client"
    /\ monPc' = "running"
    /\ IF ok
         THEN /\ lcPc' = "startSync"
              /\ UNCHANGED serveErr
         ELSE ServeReturn("client")
    /\ UNCHANGED <<cacheDir, mountCalled, mounted, connClosed, dbState, bucket,
                   deferStack, sigPc, unmounts, unmountErrs>>
    /\ UNCHANGED <<hvars, kvars, pvars, cvars, ovars>>

\* A bug variant of startSync: the serve loop is entered without the
\* consumer goroutine having been started.
startSyncNoConsumer ==
    /\ Alive
    /\ lcPc = "startSync"
    /\ lcPc' = "fs.Serve"
    /\ UNCHANGED <<cacheDir, mountCalled, mounted, connClosed, dbState, bucket,
                   deferStack, serveErr, sigPc, unmounts, unmountErrs>>
    /\ UNCHANGED <<consPc, consReq, inflight, callPc, callCount, callReq, returned,
                   dispatched, running>>
    /\ UNCHANGED <<hvars, kvars, xvars>>

\* Serve, lines 290-292, and startSync, lines 333-349: the consumer goroutine
\* is started and startSync returns nil; the serve loop is entered next
startSync ==
    /\ Alive
    /\ lcPc = "startSync"
    /\ consPc' = "recv"
    /\ lcPc' = "fs.Serve"
    /\ UNCHANGED <<cacheDir, mountCalled, mounted, connClosed, dbState, bucket,
                   deferStack, serveErr, sigPc, unmounts, unmountErrs>>
    /\ UNCHANGED <<consReq, inflight, callPc, callCount, callReq, returned, dispatched,
                   running>>
    /\ UNCHANGED <<hvars, kvars, xvars>>

\* Serve, lines 296-299: fs.Serve(c, mfs) blocks until the connection ends
\* (the mountpoint is unmounted) and then returns nil, or fails with an error
Serve_FsServe(ok) ==
    /\ Alive
    /\ lcPc = "fs.Serve"
    /\ IF ok
         THEN /\ ~mounted
              /\ lcPc' = "c.Ready"
              /\ UNCHANGED serveErr
         ELSE ServeReturn("serve")
    /\ UNCHANGED <<cacheDir, mountCalled, mounted, connClosed, dbState, bucket,
                   deferStack, sigPc, unmounts, unmountErrs>>
    /\ UNCHANGED <<hvars, kvars, pvars, xvars>>

\* Serve, lines 301-304: <-c.Ready; return c.MountError
Serve_Ready(ok) ==
    /\ Alive
    /\ lcPc = "c.Ready"
    /\ ServeReturn(IF ok THEN "nil" ELSE "MountError")
    /\ UNCHANGED <<cacheDir, mountCalled, mounted, connClosed, dbState, bucket,
                   deferStack, sigPc, unmounts, unmountErrs>>
    /\ UNCHANGED <<hvars, kvars, pvars, xvars>>

\* shutdown, lines 307-314: fuse.Unmount(mountpoint); an error is logged.
\* Unmounting succeeds only on a mounted mountpoint, and may fail there too.
shutdown(ok) ==
    /\ mounted' = (mounted /\ ~ok)
    /\ unmounts' = unmounts + 1
    /\ unmountErrs' = IF mounted /\ ok THEN unmountErrs ELSE unmountErrs + 1

\* A bug variant of Serve_RunDeferred: an error of the deferred unmount
\* replaces the result of Serve.
Serve_RunDeferredEscalates(ok) ==
    /\ Alive
    /\ lcPc = "defers"
    /\ IF deferStack = <<>>
         THEN /\ lcPc' = "returned"
              /\ UNCHANGED <<deferStack, dbState, connClosed, mounted, unmounts,
                             unmountErrs, serveErr>>
         ELSE /\ deferStack' = Tail(deferStack)
              /\ UNCHANGED lcPc
              /\ CASE Head(deferStack) = "db.Close" ->
                        /\ dbState' = "closed"
                        /\ UNCHANGED <<connClosed, mounted, unmounts, unmountErrs,
                                       serveErr>>
                   [] Head(deferStack) = "c.Close" ->
                        /\ connClosed' = TRUE
                        /\ UNCHANGED <<dbState, mounted, unmounts, unmountErrs,
                                       serveErr>>
                   [] Head(deferStack) = "shutdown" ->
                        /\ shutdown(ok)
                        /\ serveErr' = IF mounted /\ ok THEN serveErr ELSE "unmount"
                        /\ UNCHANGED <<dbState, connClosed>>
    /\ UNCHANGED <<cacheDir, mountCalled, bucket, sigPc>>
    /\ UNCHANGED <<hvars, kvars, pvars, xvars>>

\* the deferred calls of Serve run in reverse order of registration:
\* mfs.db.Close() (line 235), c.Close() (line 215), mfs.shutdown() (line 206)
Serve_RunDeferred(ok) ==
    /\ Alive
    /\ lcPc = "defers"
    /\ IF deferStack = <<>>
         THEN /\ lcPc' = "returned"
              /\ UNCHANGED <<deferStack, dbState, connClosed, mounted, unmounts,
                             unmountErrs>>
         ELSE /\ deferStack' = Tail(deferStack)
              /\ UNCHANGED lcPc
              /\ CASE Head(deferStack) = "db.Close" ->
                        /\ dbState' = "closed"
                        /\ UNCHANGED <<connClosed, mounted, unmounts, unmountErrs>>
                   [] Head(deferStack) = "c.Close" ->
                        /\ connClosed' = TRUE
                        /\ UNCHANGED <<dbState, mounted, unmounts, unmountErrs>>
                   [] Head(deferStack) = "shutdown" ->
                        /\ shutdown(ok)
                        /\ UNCHANGED <<dbState, connClosed>>
    /\ UNCHANGED <<cacheDir, mountCalled, bucket, serveErr, sigPc>>
    /\ UNCHANGED <<hvars, kvars, pvars, xvars>>

\* Serve, line 221: <-trapChannel, a termination signal is delivered
Signal_Trap ==
    /\ Alive
    /\ sigPc = "waiting"
    /\ sigPc' = "shutdown"
    /\ UNCHANGED <<lcPc, cacheDir, mountCalled, mounted, connClosed, dbState,
                   bucket, deferStack, serveErr, unmounts, unmountErrs>>
    /\ UNCHANGED <<hvars, kvars, pvars, xvars>>

\* Serve, lines 223-225: the signal goroutine calls mfs.shutdown()
Signal_Shutdown(ok) ==
    /\ Alive
    /\ sigPc = "shutdown"
    /\ shutdown(ok)
    /\ sigPc' = "done"
    /\ UNCHANGED <<lcPc, cacheDir, mountCalled, connClosed, dbState, bucket,
                   deferStack, serveErr>>
    /\ UNCHANGED <<hvars, kvars, pvars, xvars>>

\* the connection ends without a shutdown() of this process: the mountpoint
\* is unmounted from outside while fs.Serve (line 296) is serving it
ExternalUnmount ==
    /\ Alive
    /\ lcPc = "fs.Serve"
    /\ mounted
    /\ mounted' = FALSE
    /\ UNCHANGED <<lcPc, cacheDir, mountCalled, connClosed, dbState, bucket,
                   deferStack, serveErr, sigPc, unmounts, unmountErrs>>
    /\ UNCHANGED <<hvars, kvars, pvars, xvars>>

(* ------------------- write-back pipeline: sync, startSync -------------- *)
\* the value passed to sync: the idx-th operation of caller c, of type t;
\* late records that a shutdown() had completed when sync was called
NewReq(c, t) ==
    [caller |-> c, idx |-> callCount[c] + 1, type |-> t, late |-> unmounts > 0]

\* A bug variant of sync: the send is not waited for (as a "go" send or an
\* unbounded buffer would do), so a caller can have several sends pending.
syncNoWait(c, t) ==
    /\ Alive
    /\ lcPc = "fs.Serve"
    /\ callCount' = [callCount EXCEPT ![c] = @ + 1]
    /\ callReq' = [callReq EXCEPT ![c] = NewReq(c, t)]
    /\ inflight' = inflight \cup {NewReq(c, t)}
    /\ UNCHANGED <<callPc, consPc, consReq, returned, dispatched, running>>
    /\ UNCHANGED <<hvars, kvars, lvars, xvars>>

\* sync, line 317: mfs.syncChan <- req.  The channel is unbuffered (line 133),
\* so the sender blocks until the consumer receives.  Requests are handled
\* while the serve loop runs; late records that a shutdown() had completed
\* when sync was called.
sync(c, t) ==
    /\ Alive
    /\ lcPc = "fs.Serve"
    /\ callPc[c] = "idle"
    /\ callPc' = [callPc EXCEPT ![c] = "blocked"]
    /\ callCount' = [callCount EXCEPT ![c] = @ + 1]
    /\ callReq' = [callReq EXCEPT ![c] = NewReq(c, t)]
    /\ inflight' = inflight \cup {NewReq(c, t)}
    /\ UNCHANGED <<consPc, consReq, returned, dispatched, running>>
    /\ UNCHANGED <<hvars, kvars, lvars, xvars>>

\* startSync, line 335: for req := range mfs.syncChan receives from one
\* blocked sender, whose send is thereby complete
Consumer_Recv(op) ==
    /\ Alive
    /\ consPc = "recv"
    /\ op \in inflight
    /\ inflight' = inflight \ {op}
    /\ consReq' = op
    /\ consPc' = "switch"
    /\ callPc' = [callPc EXCEPT ![op.caller] = "sent"]
    /\ UNCHANGED <<callCount, callReq, returned, dispatched, running>>
    /\ UNCHANGED <<hvars, kvars, lvars, xvars>>

\* sync, line 318: return nil, once the sender runs again after its send
sync_Return(c) ==
    /\ Alive
    /\ callPc[c] = "sent"
    /\ callPc' = [callPc EXCEPT ![c] = "idle"]
    /\ returned' = returned \cup {[op |-> callReq[c], ret |-> "nil"]}
    /\ UNCHANGED <<consPc, consReq, inflight, callCount, callReq, dispatched,
                   running>>
    /\ UNCHANGED <<hvars, kvars, lvars, xvars>>

\* the handler the type switch calls for each operation type
HandlerFor(t) ==
    CASE t = "MoveOperation" -> "moveOp"
      [] t = "CopyOperation" -> "copyOp"
      [] t = "PutOperation" -> "putOp"
      [] OTHER -> "none"

\* A bug variant of Consumer_Switch: the PutOperation case calls no handler.
Consumer_SwitchDropsPut ==
    /\ Alive
    /\ consPc = "switch"
    /\ IF HandlerFor(consReq.type) = "none"
         THEN /\ consPc' = "panicked"
              /\ UNCHANGED <<dispatched, running>>
         ELSE /\ consPc' = "handler"
              /\ running' = running + 1
              /\ dispatched' =
                    IF consReq.type = "PutOperation" THEN dispatched
                    ELSE Append(dispatched,
                                [caller |-> consReq.caller, idx |-> consReq.idx,
                                 type |-> consReq.type,
                                 handler |-> HandlerFor(consReq.type)])
    /\ UNCHANGED <<consReq, inflight, callPc, callCount, callReq, returned>>
    /\ UNCHANGED <<hvars, kvars, lvars, xvars>>

\* A bug variant of Consumer_Switch: the handler is started with "go", so the
\* loop receives again while the handler runs.
Consumer_SwitchAsync ==
    /\ Alive
    /\ consPc = "switch"
    /\ IF HandlerFor(consReq.type) = "none"
         THEN /\ consPc' = "panicked"
              /\ UNCHANGED <<dispatched, running>>
         ELSE /\ consPc' = "recv"
              /\ running' = running + 1
              /\ dispatched' = Append(dispatched,
                                [caller |-> consReq.caller, idx |-> consReq.idx,
                                 type |-> consReq.type,
                                 handler |-> HandlerFor(consReq.type)])
    /\ UNCHANGED <<consReq, inflight, callPc, callCount, callReq, returned>>
    /\ UNCHANGED <<hvars, kvars, lvars, xvars>>

\* A bug variant of Consumer_Switch: the default case skips the value and the
\* loop goes on.
Consumer_SwitchDefaultContinues ==
    /\ Alive
    /\ consPc = "switch"
    /\ IF HandlerFor(consReq.type) = "none"
         THEN /\ consPc' = "recv"
              /\ UNCHANGED <<dispatched, running>>
         ELSE /\ consPc' = "handler"
              /\ running' = running + 1
              /\ dispatched' = Append(dispatched,
                                [caller |-> consReq.caller, idx |-> consReq.idx,
                                 type |-> consReq.type,
                                 handler |-> HandlerFor(consReq.type)])
    /\ UNCHANGED <<consReq, inflight, callPc, callCount, callReq, returned>>
    /\ UNCHANGED <<hvars, kvars, lvars, xvars>>

\* startSync, lines 336-345: switch req := req.(type): the matching handler
\* is called; any other type panics
Consumer_Switch ==
    /\ Alive
    /\ consPc = "switch"
    /\ IF HandlerFor(consReq.type) = "none"
         THEN /\ consPc' = "panicked"
              /\ UNCHANGED <<dispatched, running>>
         ELSE /\ consPc' = "handler"
              /\ running' = running + 1
              /\ dispatched' = Append(dispatched,
                                [caller |-> consReq.caller, idx |-> consReq.idx,
                                 type |-> consReq.type,
                                 handler |-> HandlerFor(consReq.type)])
    /\ UNCHANGED <<consReq, inflight, callPc, callCount, callReq, returned>>
    /\ UNCHANGED <<hvars, kvars, lvars, xvars>>

\* moveOp, copyOp, putOp (lines 321-331) return; the loop receives again
Handler_Return ==
    /\ Alive
    /\ consPc = "handler"
    /\ consPc' = "recv"
    /\ consReq' = NoReq
    /\ running' = running - 1
    /\ UNCHANGED <<inflight, callPc, callCount, callReq, returned, dispatched>>
    /\ UNCHANGED <<hvars, kvars, lvars, xvars>>

Next ==
    \/ \E ok \in BOOLEAN : New_InitConfig(ok)
    \/ \E ok \in BOOLEAN : New_OpenLog(ok)
    \/ \E ok \in BOOLEAN : New_MkdirAll(ok)
    \/ \E ok \in BOOLEAN : New_Validate(ok)
    \/ Serve_Begin
    \/ \E ok \in BOOLEAN : Serve_Mount(ok)
    \/ \E ok \in BOOLEAN : Serve_MetaOpen(ok)
    \/ \E ok \in BOOLEAN : Serve_DbUpdate(ok)
    \/ \E ok \in BOOLEAN : Serve_NewClient(ok)
    \/ startSync
    \/ \E ok \in BOOLEAN : Serve_FsServe(ok)
    \/ \E ok \in BOOLEAN : Serve_Ready(ok)
    \/ \E ok \in BOOLEAN : Serve_RunDeferred(ok)
    \/ Signal_Trap
    \/ \E ok \in BOOLEAN : Signal_Shutdown(ok)
    \/ ExternalUnmount
    \/ \E c \in Callers, t \in OpTypes : TotalCalls < MaxOps /\ sync(c, t)
    \/ \E op \in inflight : Consumer_Recv(op)
    \/ \E c \in Callers : sync_Return(c)
    \/ Consumer_Switch
    \/ Handler_Return

\* the serving phase of a run whose startup succeeds and that receives no
\* signal: New and Serve up to the serve loop, then the pipeline
NextPipe ==
    \/ New_InitConfig(TRUE)
    \/ New_OpenLog(TRUE)
    \/ New_MkdirAll(TRUE)
    \/ New_Validate(TRUE)
    \/ Serve_Begin
    \/ Serve_Mount(TRUE)
    \/ Serve_MetaOpen(TRUE)
    \/ Serve_DbUpdate(TRUE)
    \/ Serve_NewClient(TRUE)
    \/ startSync
    \/ \E c \in Callers, t \in OpTypes : TotalCalls < MaxPipeOps /\ sync(c, t)
    \/ \E op \in inflight : Consumer_Recv(op)
    \/ \E c \in Callers : sync_Return(c)
    \/ Consumer_Switch
    \/ Handler_Return

(* --------------------------- specifications ---------------------------- *)
Init ==
    /\ InitHandles
    /\ InitKM
    /\ InitCache
    /\ InitOpen
    /\ InitLifecycle
    /\ InitPipeline

SpecHandles == Init /\ [][NextHandles]_vars
SpecRelease == Init /\ [][NextRelease]_vars
SpecKM == Init /\ [][NextKM]_vars
SpecCache == Init /\ [][NextCache]_vars
SpecOpen == Init /\ [][NextOpen]_vars
SpecPipe == Init /\ [][NextPipe]_vars
Spec == Init /\ [][Next]_vars

\* the steps of the main goroutine that it takes by itself once it can: the
\* statements of New and Serve, the serve loop returning once the mountpoint
\* is unmounted, and the deferred calls
MainStep ==
    \/ \E ok \in BOOLEAN : New_InitConfig(ok)
    \/ \E ok \in BOOLEAN : New_OpenLog(ok)
    \/ \E ok \in BOOLEAN : New_MkdirAll(ok)
    \/ \E ok \in BOOLEAN : New_Validate(ok)
    \/ Serve_Begin
    \/ \E ok \in BOOLEAN : Serve_Mount(ok)
    \/ \E ok \in BOOLEAN : Serve_MetaOpen(ok)
    \/ \E ok \in BOOLEAN : Serve_DbUpdate(ok)
    \/ \E ok \in BOOLEAN : Serve_NewClient(ok)
    \/ startSync
    \/ Serve_FsServe(TRUE)
    \/ \E ok \in BOOLEAN : Serve_Ready(ok)
    \/ \E ok \in BOOLEAN : Serve_RunDeferred(ok)

\* Scheduling: a goroutine that can run is run.  The main goroutine and the
\* signal goroutine take their next step; the consumer switches on what it
\* received and handlers return; a sender blocked on syncChan is received
\* from once the consumer is at the receive often enough (the channel's
\* senders wait in a queue), and a sender whose send is complete returns.  No signal need arrive, no request need be
\* made, and the serve loop need not fail.
Fairness ==
    /\ WF_vars(MainStep)
    /\ WF_vars(\E ok \in BOOLEAN : Signal_Shutdown(ok))
    /\ \A c \in Callers :
           SF_vars(\E op \in inflight : op.caller = c /\ Consumer_Recv(op))
    /\ \A c \in Callers : WF_vars(sync_Return(c))
    /\ WF_vars(Consumer_Switch)
    /\ WF_vars(Handler_Return)

FairLife == Spec /\ Fairness
FairPipe == SpecPipe /\ Fairness

(* ------------------------------ claims --------------------------------- *)
\* every goroutine is outside Acquire (Release is a single step)
HandlesQuiescent == \A p \in Procs : hPc[p] = "idle"

\* C1: the handle ids stored in the FileHandles returned by Acquire are
\* pairwise distinct, for every interleaving of Acquire calls.
C1_HandlesPairwiseDistinct ==
    \A i, j \in DOMAIN fhs : i # j => fhs[i].handle # fhs[j].handle

\* the FileHandles acquired and not yet released
LiveHandles == {i \in DOMAIN fhs : ~fhs[i].released}

\* C2: whenever no call is in progress, openfds is exactly the map
\* handle id -> resource key over the handles acquired and not released.
C2_OpenfdsIsLiveMap ==
    HandlesQuiescent =>
        /\ \A i \in LiveHandles :
              /\ fhs[i].handle \in DOMAIN openfds
              /\ openfds[fhs[i].handle] = fhs[i].key
        /\ \A h \in DOMAIN openfds : \E i \in LiveHandles : fhs[i].handle = h

\* the goroutines between the return of Lock(key) and their release call
Holders(key) == {c \in Lockers : kmPc[c] = "held" /\ kmKey[c] = key}

\* C3: for every key at most one caller is between the return of Lock(key)
\* and the call of its release function.
C3_MutualExclusionPerKey ==
    \A key \in ResourceKeys : Cardinality(Holders(key)) <= 1

\* C3 witness: two callers raced on the first use of a key (they allocated
\* different mutexes), one holds the key and the other waits on the same
\* mutex.
C3_Witness ==
    \E c, d \in Lockers :
        /\ c # d
        /\ kmKey[c] = kmKey[d]
        /\ kmPc[c] = "held"
        /\ kmPc[d] = "locking"
        /\ kmMtx[c] = kmMtx[d]
        /\ nextMtx = 2

\* C4: callers of distinct keys never block each other: a caller waiting
\* in Lock(k) while nobody holds k can take its mutex at once, whatever
\* other keys are held.
C4_DistinctKeysIndependent ==
    \A c \in Lockers :
        (kmPc[c] = "locking" /\ Holders(kmKey[c]) = {}) => ENABLED MtxLock(c)

\* C4 witness: a caller is in Lock(k) with k free while another key is held.
C4_Witness ==
    \E c, d \in Lockers :
        /\ kmPc[c] = "locking"
        /\ Holders(kmKey[c]) = {}
        /\ kmPc[d] = "held"
        /\ kmKey[d] # kmKey[c]

\* the positions in dispatched of the handler invocations for an operation
DispatchesOf(op) ==
    {i \in DOMAIN dispatched :
        dispatched[i].caller = op.caller /\ dispatched[i].idx = op.idx}

\* C5: the handler invocations form one sequence in which the operations of
\* each caller appear in the order that caller submitted them, each handled
\* by the handler of its type.
C5_DispatchInSubmissionOrder ==
    /\ \A i, j \in DOMAIN dispatched :
          (i < j /\ dispatched[i].caller = dispatched[j].caller)
              => dispatched[i].idx < dispatched[j].idx
    /\ \A i \in DOMAIN dispatched :
          /\ dispatched[i].handler = HandlerFor(dispatched[i].type)
          /\ dispatched[i].handler # "none"

\* C5 witness: one caller submitted A, B, C of three different types and
\* all three have been dispatched.
C5_Witness ==
    \E c \in Callers :
        /\ Len(dispatched) = 3
        /\ \A i \in 1..3 : dispatched[i].caller = c /\ dispatched[i].idx = i
        /\ dispatched[1].type = "MoveOperation"
        /\ dispatched[2].type = "CopyOperation"
        /\ dispatched[3].type = "PutOperation"

\* the operations the consumer has received: those whose sync has returned
\* and those whose sender has not yet run on to its return
Received ==
    {r.op : r \in returned}
        \cup {callReq[c] : c \in {d \in Callers : callPc[d] = "sent"}}

\* C6: every operation whose sync has returned is dispatched exactly once
\* (it is dispatched by the time the consumer takes the next value), no
\* operation is dispatched twice, and every dispatch is of a submitted
\* operation that the consumer received, whatever the submitting request
\* does afterwards.
C6_DispatchedExactlyOnce ==
    /\ \A i, j \in DOMAIN dispatched :
          (dispatched[i].caller = dispatched[j].caller
             /\ dispatched[i].idx = dispatched[j].idx) => i = j
    /\ \A i \in DOMAIN dispatched : \E op \in Received :
          /\ op.caller = dispatched[i].caller
          /\ op.idx = dispatched[i].idx
          /\ op.type = dispatched[i].type
    /\ \A r \in returned :
          HandlerFor(r.op.type) # "none" =>
              \/ Cardinality(DispatchesOf(r.op)) = 1
              \/ /\ DispatchesOf(r.op) = {}
                 /\ consPc = "switch"
                 /\ consReq = r.op

\* C6 witness: an operation has been dispatched after its sync returned and
\* its request has gone on to another sync call.
C6_Witness ==
    \E r \in returned :
        /\ Cardinality(DispatchesOf(r.op)) = 1
        /\ callCount[r.op.caller] > r.op.idx
        /\ callPc[r.op.caller] = "blocked"

\* C7: shutdown is a drain-then-stop: once Serve has returned, with both of
\* its shutdown paths run, the consumer has applied what was enqueued and
\* has left its loop.
C7_DrainThenStop ==
    (lcPc = "returned" /\ consPc # "none" /\ Alive)
        => (consPc = "exited" /\ inflight = {})

\* C8: sync returns an error exactly for the operations submitted after a
\* shutdown.
C8_ErrorIffShutDown ==
    \A r \in returned : (r.ret = "error") <=> r.op.late

\* C9: in no run is the mountpoint mounted when the metadata
\* store open or the root-bucket creation fails.
C9_NoMountWhenStoreFails ==
    ~(mountCalled /\ (dbState = "openfailed" \/ bucket = "failed"))

\* C10: once Serve has ended after the store was opened the store
\* is closed, and it is closed only after an unmount has completed.
C10_ClosedOnlyAfterUnmount ==
    /\ (lcPc = "returned" /\ dbState # "unopened" /\ dbState # "openfailed")
          => dbState = "closed"
    /\ dbState = "closed" => (unmounts >= 1 \/ ~mounted)

\* the value Serve returns names what made it return
ReturnValueIsCause ==
    /\ serveErr \in {"nil", "mount", "open", "update", "client", "serve",
                     "MountError"}
    /\ serveErr = "mount" <=> sigPc = "none"
    /\ serveErr = "open" <=> dbState = "openfailed"
    /\ serveErr = "update" <=> bucket = "failed"
    /\ serveErr \in {"client", "serve", "MountError", "nil"} => bucket = "ok"
    /\ serveErr \in {"serve", "MountError", "nil"} => consPc # "none"

\* C11: an unmount error is never escalated: no completed unmount, failed or
\* not, of the signal goroutine or of the deferred shutdown, changes the
\* result of Serve, which is the mount or startup error, the serve loop's
\* error or the connection's mount error, else success.
C11_UnmountErrorNotEscalated ==
    /\ [](lcPc \in {"defers", "returned"} => ReturnValueIsCause)
    /\ [][unmounts' # unmounts => serveErr' = serveErr]_vars

\* C11 witness: Serve has returned success in a run where shutdown ran twice
\* (signal goroutine and deferred call) and an unmount failed.
C11_Witness ==
    /\ lcPc = "returned"
    /\ serveErr = "nil"
    /\ sigPc = "done"
    /\ unmounts = 2
    /\ unmountErrs >= 1

\* C15: at most one write-back handler is executing at any instant, and the
\* consumer receives or dispatches only when the handler of the previous
\* operation has returned; a consumer is started only when there is none.
C15_OneHandlerAtATime ==
    /\ [](running <= 1)
    /\ [](consPc \in {"none", "recv", "switch"} => running = 0)
    /\ [][consPc # consPc' /\ consPc' = "recv" /\ lcPc # lcPc' => consPc = "none"]_vars

\* C15 witness: a handler is executing while another request is blocked in
\* sync with the next operation.
C15_Witness ==
    /\ consPc = "handler"
    /\ running = 1
    /\ inflight # {}

\* C16: a value that is not a Move-, Copy- or PutOperation ends the consumer
\* for good with no handler called for it and nothing dispatched afterwards;
\* a value of one of the three types is passed to exactly the matching
\* handler and the loop goes on to receive again.
C16_UnknownTypeEndsConsumer ==
    /\ [](consPc = "panicked" =>
            (HandlerFor(consReq.type) = "none" /\ DispatchesOf(consReq) = {}))
    /\ [][consPc = "panicked" =>
            (consPc' = "panicked" /\ dispatched' = dispatched)]_vars
    /\ [][(consPc = "switch" /\ consPc' # "switch") =>
            IF HandlerFor(consReq.type) = "none"
              THEN consPc' = "panicked" /\ dispatched' = dispatched
              ELSE /\ consPc' = "handler"
                   /\ dispatched' = Append(dispatched,
                          [caller |-> consReq.caller, idx |-> consReq.idx,
                           type |-> consReq.type,
                           handler |-> HandlerFor(consReq.type)])]_vars
    /\ [][consPc = "handler" /\ consPc' # "handler" => consPc' = "recv"]_vars

\* C16 witness: the consumer has ended on a value of another type, after an
\* earlier dispatch, with a later operation still waiting in sync.
C16_Witness ==
    /\ consPc = "panicked"
    /\ Len(dispatched) >= 1
    /\ inflight # {}

\* C18: the cache directory is created only after the configuration has
\* been validated: a run whose validation has not succeeded has created no
\* cache directory.
C18_CacheDirOnlyAfterValidation ==
    cacheDir => lcPc \notin {"New_config", "New_log", "New_mkdir",
                             "New_validate", "New_failed"}

\* C17: a Release of a handle id that is not in openfds returns leaving the
\* table and the handle counter as they were; a Release of an id that is in
\* the table removes that entry and no other.
C17_ReleaseRemovesOnlyItsEntry ==
    [][relCount' # relCount =>
         /\ fdcounter' = fdcounter
         /\ hPc' = hPc
         /\ lastRel'.present = (lastRel'.handle \in DOMAIN openfds)
         /\ IF lastRel'.handle \in DOMAIN openfds
              THEN DOMAIN openfds' = DOMAIN openfds \ {lastRel'.handle}
              ELSE openfds' = openfds
         /\ \A h \in DOMAIN openfds' : openfds'[h] = openfds[h]]_vars

\* C17 witness: a Release of an id that was not in the table has returned
\* while other handles are open.
C17_Witness ==
    /\ relCount >= 1
    /\ ~lastRel.present
    /\ openfds # EmptyMap

\* C12: every NewCachePath call that has returned checked its candidates in
\* the order generated; every candidate before the last was reported to
\* exist (and was on disk); the call returned the last candidate with a nil
\* error exactly when the last check reported "does not exist", that path
\* lies under the cache directory and was not on disk when checked; it
\* returned an error with the empty path exactly when the last check failed
\* with another error.
C12_FirstFreeCandidateOrError ==
    \A i \in DOMAIN ncResults :
        LET r == ncResults[i]
            n == Len(r.log)
        IN  /\ n >= 1
            /\ \A j \in 1..(n - 1) :
                   r.log[j].outcome = "exists" /\ r.log[j].onDisk
            /\ r.log[n].outcome \in {"notexist", "error"}
            /\ (r.err = "nil") <=> (r.log[n].outcome = "notexist")
            /\ (r.err # "nil") <=> (r.log[n].outcome = "error")
            /\ r.err = "nil" =>
                   /\ r.path = r.log[n].path
                   /\ r.path[1] = CacheDir
                   /\ ~r.log[n].onDisk
            /\ r.err # "nil" => r.path = NoPath

\* C12 witness: one call returned a path after skipping a candidate that
\* existed, another returned an error.
C12_Witness ==
    /\ \E i \in DOMAIN ncResults :
           ncResults[i].err = "nil" /\ Len(ncResults[i].log) >= 2
    /\ \E i \in DOMAIN ncResults : ncResults[i].err # "nil"

\* C13: no two NewCachePath calls that returned a path returned the same one.
C13_ReturnedPathsDistinct ==
    \A i, j \in DOMAIN ncResults :
        (i # j /\ ncResults[i].err = "nil" /\ ncResults[j].err = "nil")
            => ncResults[i].path # ncResults[j].path

\* C13 witness: two calls have returned a path and nothing has been created
\* on disk.
C13_Witness ==
    /\ disk = {}
    /\ \E i, j \in DOMAIN ncResults :
           i < j /\ ncResults[i].err = "nil" /\ ncResults[j].err = "nil"

\* C14: with every Open request running check, populate-if-absent and
\* hand-out while it holds KeyedMutex.Lock(key), the population step runs at
\* most once for a key and exactly once as soon as contents of the key have
\* been handed out; what is handed out is populated, and every hand-out of
\* a key after the first comes from a request whose check saw the entry
\* populated.
C14_PopulatedOncePerKey ==
    /\ \A k \in ResourceKeys : populations[k] <= 1
    /\ \A i \in DOMAIN handouts :
           /\ handouts[i].populated
           /\ populations[handouts[i].key] = 1
    /\ \A i, j \in DOMAIN handouts :
           (i < j /\ handouts[i].key = handouts[j].key) => handouts[j].saw
    /\ \A c \in Lockers :
           opPc[c] = "populate" => populations[kmKey[c]] = 0

\* C14 witness: two requests for one key ran concurrently (the second was
\* waiting for the lock while the first handed out), and the second was
\* handed the entry the first populated.
C14_Witness ==
    \E i, j \in DOMAIN handouts :
        /\ i < j
        /\ handouts[i].key = handouts[j].key
        /\ handouts[i].caller # handouts[j].caller
        /\ ~handouts[i].saw
        /\ handouts[i].contended
        /\ handouts[j].saw

\* C19: every termination signal delivered makes the signal goroutine call
\* shutdown(), which makes one unmount call, and after every delivered
\* signal Serve returns with the metadata store not open (unless a panic
\* has ended the process).
C19_SignalLeadsToReturn ==
    /\ [][(sigPc = "shutdown" /\ sigPc' # "shutdown")
             => unmounts' = unmounts + 1]_vars
    /\ (sigPc = "shutdown")
           ~> ((lcPc = "returned" /\ dbState # "open") \/ ~Alive)

\* C20: a request can be blocked in sync only while a consumer exists (it
\* was started before the serve loop was entered and has not ended), and
\* every blocked sync call returns, unless the process has ended by a panic.
C20_SyncReturns ==
    /\ [](\A c \in Callers : callPc[c] = "blocked" => consPc # "none")
    /\ []((Alive /\ inflight # {}) => consPc \in {"recv", "switch", "handler"})
    /\ \A c \in Callers :
           (callPc[c] \in {"blocked", "sent"}) ~> (callPc[c] = "idle" \/ ~Alive)

\* C20 witness: a caller is blocked in sync while the consumer is busy with
\* an earlier operation.
C20_Witness ==
    \E c \in Callers :
        /\ callPc[c] = "blocked"
        /\ consPc = "handler"
        /\ consReq.caller # c
====
